---- MODULE Spec2Model ----
(***************************************************************************)
(* Playback-to-vote state coordinator of party-vote-backend (src/index.js, *)
(* first service, lines 1-266).  Two actors share the store: the periodic  *)
(* poll callback (lines 73-133) and concurrent POST /vote handlers (lines  *)
(* 147-235).  Every await of the handlers is a point where the other actor *)
(* may run, so each store or playback call is one atomic step here and the *)
(* synchronous JavaScript between two awaits belongs to the step that ends *)
(* with the next call.                                                     *)
(*                                                                         *)
(* The store tables carry a single party (PARTY_ID is a process constant), *)
(* so the party column is left implicit.  track_name and artist are taken  *)
(* from the same playback snapshot as the track identifier.                *)
(*                                                                         *)
(* One poll cycle is in flight at a time (a cycle is far shorter than the  *)
(* 5 s interval); vote handlers overlap freely with it and each other.     *)
(* The playback service is the environment: the track it plays, which      *)
(* changes when a track ends by itself or a skip command succeeds.         *)
(* ended and skipCommands record what the service did and are read by no   *)
(* action.  The second service of src/index.js (lines 268-481) has the     *)
(* same validation, lookup and insert steps and is not modelled apart.     *)
(*                                                                         *)
(* Spec is the service once start() has refreshed the token and called     *)
(* listen, with store calls of the poll cycle that succeed.  SpecF adds    *)
(* failing store calls to the poll cycle; SpecR starts where the module    *)
(* has been loaded and start() awaits the first token refresh, and adds    *)
(* the refreshes of start() and of the 50-minute timer with their          *)
(* failures.                                                               *)
(***************************************************************************)
EXTENDS Integers, Sequences, FiniteSets, TLC

\* ---------------------------------------------------------------- bounds
\* vote requests received, poll cycles started and natural track changes over a run
MaxEvents == 5

\* process.env.DOWNVOTE_THRESHOLD, a deployment setting (default "5")
DOWNVOTE_THRESHOLD == 2

Tracks == {"A", "B"}
Devices == {"d1", "d2"}
Reqs == {1, 2}                       \* vote handlers that may be in flight at once

None == "none"                       \* null / undefined / a missing field
DeviceInputs == Devices \cup {None}  \* req.body.device_id
VoteInputs == {"up", "down", "meh"}  \* req.body.vote

\* item.name and item.artists[0].name of the playback snapshot of track t
TrackName(t) == "name of " \o t
Artist(t) == "artist of " \o t

NoSong == [spotify_track_id |-> None, track_name |-> None, artist |-> None,
           upvotes |-> 0, downvotes |-> 0]
NoRes == [status |-> 0, upvotes |-> 0, downvotes |-> 0,
          remaining_to_skip |-> 0, skipped |-> FALSE]
IdleReq == [pc |-> "idle", device_id |-> None, vote |-> None, song |-> NoSong,
            upvotes |-> 0, downvotes |-> 0]

VARIABLES
  playing,       \* playback service: the track it is playing
  ended,         \* playback service: how many times each track stopped playing
  skipCommands,  \* playback service: skip commands received (failed ones included)
  lastTrackId,   \* the poller's last-seen track identifier
  current_song,  \* store: the party's current_song row, NoSong when there is none
  votes,         \* store: the votes table
  song_history,  \* store: the song_history table, in insertion order
  poll,          \* the poll callback: its position and locals
  req,           \* the vote handlers: position and locals
  res,           \* the response sent last, NoRes before the first one
  nEvents,       \* requests received, poll cycles started and tracks ended by themselves
  phase,         \* the process: "starting", "listening", "stalled" or "exited"
  access_token   \* spotifyTokens.access_token: "env" or "refreshed"

vars == <<playing, ended, skipCommands, lastTrackId, current_song, votes,
          song_history, poll, req, res, nEvents, phase, access_token>>

runtime == <<phase, access_token>>

store == <<current_song, votes, song_history>>
service == <<playing, ended, skipCommands>>

\* track: what the cycle that ran last (or is running) observed, None for
\* nothing; failed: a call of that cycle failed
IdlePoll == [pc |-> "idle", track |-> None, previousSong |-> NoSong,
             failed |-> FALSE]

Init ==
  /\ playing = "A"
  /\ ended = [t \in Tracks |-> 0]
  /\ skipCommands = 0
  /\ lastTrackId = None
  /\ current_song = NoSong
  /\ votes = {}
  /\ song_history = <<>>
  /\ poll = IdlePoll
  /\ req = [r \in Reqs |-> IdleReq]
  /\ res = NoRes
  /\ nEvents = 0
  /\ phase = "listening"
  /\ access_token = "refreshed"

\* ------------------------------------------------------------- helpers
Max(a, b) == IF a >= b THEN a ELSE b

\* rows of the votes table for one track
VotesFor(t) == {v \in votes : v.spotify_track_id = t}

\* the votes table is keyed by (party, track, device): an insert of a key
\* that is present fails, which the handler reports as "Already voted"
VoteKeyTaken(t, d) ==
  \E v \in votes : v.spotify_track_id = t /\ v.device_id = d

HistoryEntry(t, d, s) == [spotify_track_id |-> t, downvotes |-> d, skipped |-> s]

Response(st, up, down, sk) ==
  [status |-> st, upvotes |-> up, downvotes |-> down,
   remaining_to_skip |-> Max(DOWNVOTE_THRESHOLD - down, 0), skipped |-> sk]

ErrorRes(st) == [NoRes EXCEPT !.status = st]

\* the row the poll cycle upserts for the track it observed
FreshRow(t) == [spotify_track_id |-> t, track_name |-> TrackName(t),
                artist |-> Artist(t), upvotes |-> 0, downvotes |-> 0]

\* ---------------------------------------------------- playback service
\* the playing track ends by itself and the service moves to another one
TrackEnds ==
  /\ nEvents < MaxEvents
  /\ nEvents' = nEvents + 1
  /\ \E t \in Tracks \ {playing} :
       /\ playing' = t
       /\ ended' = [ended EXCEPT ![playing] = @ + 1]
  /\ UNCHANGED <<skipCommands, lastTrackId, store, poll, req, res, runtime>>

\* ------------------------------------------------------- poll callback
\* PollFetch that takes "nothing playing" for the end of the last-seen track
PollFetch_NothingForgets(obs) ==
  /\ phase # "exited"
  /\ poll.pc = "idle"
  /\ nEvents < MaxEvents
  /\ nEvents' = nEvents + 1
  /\ IF obs = "ok"
     THEN poll' = [IdlePoll EXCEPT !.track = playing,
                     !.pc = IF lastTrackId # None /\ lastTrackId # playing
                            THEN "select" ELSE "upsert"]
     ELSE poll' = [IdlePoll EXCEPT !.failed = (obs = "fail")]
  /\ lastTrackId' = IF obs = "nothing" THEN None ELSE lastTrackId
  /\ UNCHANGED <<service, store, req, res, runtime>>

\* lines 73-86 and 130-132: fetch the currently playing track.  obs is the
\* outcome of the call: "ok" (an item is playing), "nothing" (no item) or
\* "fail" (the request throws and the catch logs it).
PollFetch(obs) ==
  /\ phase # "exited"
  /\ poll.pc = "idle"
  /\ nEvents < MaxEvents
  /\ nEvents' = nEvents + 1
  /\ IF obs = "ok"
     THEN poll' = [IdlePoll EXCEPT !.track = playing,
                     !.pc = IF lastTrackId # None /\ lastTrackId # playing
                            THEN "select" ELSE "upsert"]
     ELSE poll' = [IdlePoll EXCEPT !.failed = (obs = "fail")]
  /\ UNCHANGED <<service, lastTrackId, store, req, res, runtime>>

\* lines 87-93: read the party's current_song row as previousSong
PollSelectPrevious ==
  /\ poll.pc = "select"
  /\ poll' = [poll EXCEPT !.previousSong = current_song,
                !.pc = IF current_song # NoSong THEN "archive" ELSE "upsert"]
  /\ UNCHANGED <<service, lastTrackId, store, req, res, nEvents, runtime>>

\* lines 94-102: archive previousSong with skipped: false
PollArchive ==
  /\ poll.pc = "archive"
  /\ song_history' = Append(song_history,
       HistoryEntry(poll.previousSong.spotify_track_id,
                    poll.previousSong.downvotes, FALSE))
  /\ poll' = [poll EXCEPT !.pc = "clear"]
  /\ UNCHANGED <<service, lastTrackId, current_song, votes, req, res, nEvents, runtime>>

\* lines 104-110: delete the votes of previousSong's track
PollClearVotes ==
  /\ poll.pc = "clear"
  /\ votes' = votes \ VotesFor(poll.previousSong.spotify_track_id)
  /\ poll' = [poll EXCEPT !.pc = "upsert"]
  /\ UNCHANGED <<service, lastTrackId, current_song, song_history, req, res, nEvents, runtime>>

\* lines 113-128: remember the track and upsert the row with zeroed counters
PollUpsert ==
  /\ poll.pc = "upsert"
  /\ lastTrackId' = poll.track
  /\ current_song' = FreshRow(poll.track)
  /\ poll' = [IdlePoll EXCEPT !.track = poll.track, !.failed = poll.failed]
  /\ UNCHANGED <<service, votes, song_history, req, res, nEvents, runtime>>

\* a store call of the cycle rejects: the catch at lines 130-132 logs it and
\* the callback ends.  lastTrackId is assigned (line 113) before the upsert
\* is awaited, so a rejected upsert leaves it assigned.
PollStoreThrows ==
  /\ poll.pc \in {"select", "archive", "clear", "upsert"}
  /\ lastTrackId' = IF poll.pc = "upsert" THEN poll.track ELSE lastTrackId
  /\ poll' = [IdlePoll EXCEPT !.track = poll.track, !.failed = TRUE]
  /\ UNCHANGED <<service, store, req, res, nEvents, runtime>>

\* a store call of the cycle resolves to { error }: the callback reads no
\* error field (lines 87-128), so it goes on as if the call had been made;
\* a failed select leaves previousSong null and line 93 skips the archive
PollStoreError ==
  /\ poll.pc \in {"select", "archive", "clear", "upsert"}
  /\ lastTrackId' = IF poll.pc = "upsert" THEN poll.track ELSE lastTrackId
  /\ poll' = IF poll.pc = "upsert"
             THEN [IdlePoll EXCEPT !.track = poll.track, !.failed = TRUE]
             ELSE [poll EXCEPT !.failed = TRUE,
                     !.pc = IF poll.pc = "archive" THEN "clear" ELSE "upsert"]
  /\ UNCHANGED <<service, store, req, res, nEvents, runtime>>

\* --------------------------------------------------------- POST /vote
\* the handler that takes the next request: the first one not in flight
FreeHandler(r) ==
  /\ req[r].pc = "idle"
  /\ \A q \in Reqs : q < r => req[q].pc # "idle"

\* lines 147-148: a request arrives with its body
VoteRequest(r, d, v) ==
  /\ phase = "listening"
  /\ FreeHandler(r)
  /\ nEvents < MaxEvents
  /\ nEvents' = nEvents + 1
  /\ req' = [req EXCEPT ![r] = [IdleReq EXCEPT !.pc = "validate",
                                  !.device_id = d, !.vote = v]]
  /\ UNCHANGED <<service, lastTrackId, store, poll, res, runtime>>

\* VoteValidate with the direction left unchecked
VoteValidate_DeviceOnly(r) ==
  /\ req[r].pc = "validate"
  /\ IF req[r].device_id = None
     THEN /\ res' = ErrorRes(400)
          /\ req' = [req EXCEPT ![r] = IdleReq]
     ELSE /\ res' = res
          /\ req' = [req EXCEPT ![r].pc = "select"]
  /\ UNCHANGED <<service, lastTrackId, store, poll, nEvents, runtime>>

\* lines 150-152: the body is validated before anything is read
VoteValidate(r) ==
  /\ req[r].pc = "validate"
  /\ IF req[r].device_id = None \/ req[r].vote \notin {"up", "down"}
     THEN /\ res' = ErrorRes(400)
          /\ req' = [req EXCEPT ![r] = IdleReq]
     ELSE /\ res' = res
          /\ req' = [req EXCEPT ![r].pc = "select"]
  /\ UNCHANGED <<service, lastTrackId, store, poll, nEvents, runtime>>

\* lines 155-163: read the party's current_song row
VoteSelectSong(r) ==
  /\ req[r].pc = "select"
  /\ IF current_song = NoSong
     THEN /\ res' = ErrorRes(404)
          /\ req' = [req EXCEPT ![r] = IdleReq]
     ELSE /\ res' = res
          /\ req' = [req EXCEPT ![r].song = current_song, ![r].pc = "insert"]
  /\ UNCHANGED <<service, lastTrackId, store, poll, nEvents, runtime>>

\* VoteInsert on a votes table without the unique key: the insert never fails
VoteInsert_NoUniqueKey(r) ==
  /\ req[r].pc = "insert"
  /\ res' = res
  /\ votes' = votes \cup {[spotify_track_id |-> req[r].song.spotify_track_id,
                           device_id |-> req[r].device_id,
                           vote |-> req[r].vote]}
  /\ req' = [req EXCEPT
        ![r].upvotes = req[r].song.upvotes + (IF req[r].vote = "up" THEN 1 ELSE 0),
        ![r].downvotes = req[r].song.downvotes + (IF req[r].vote = "up" THEN 0 ELSE 1),
        ![r].pc = "update"]
  /\ UNCHANGED <<service, lastTrackId, current_song, song_history, poll, nEvents, runtime>>

\* VoteInsert written as an upsert: the device's row is replaced and counted again
VoteInsert_Upsert(r) ==
  /\ req[r].pc = "insert"
  /\ res' = res
  /\ votes' = {v \in votes : ~ (/\ v.spotify_track_id = req[r].song.spotify_track_id
                                 /\ v.device_id = req[r].device_id)}
                \cup {[spotify_track_id |-> req[r].song.spotify_track_id,
                       device_id |-> req[r].device_id,
                       vote |-> req[r].vote]}
  /\ req' = [req EXCEPT
        ![r].upvotes = req[r].song.upvotes + (IF req[r].vote = "up" THEN 1 ELSE 0),
        ![r].downvotes = req[r].song.downvotes + (IF req[r].vote = "up" THEN 0 ELSE 1),
        ![r].pc = "update"]
  /\ UNCHANGED <<service, lastTrackId, current_song, song_history, poll, nEvents, runtime>>

\* lines 165-181: insert the vote row; a refused insert is answered 409;
\* otherwise the new counters are computed from the row read before
VoteInsert(r) ==
  /\ req[r].pc = "insert"
  /\ IF VoteKeyTaken(req[r].song.spotify_track_id, req[r].device_id)
     THEN /\ res' = ErrorRes(409)
          /\ req' = [req EXCEPT ![r] = IdleReq]
          /\ votes' = votes
     ELSE /\ res' = res
          /\ votes' = votes \cup {[spotify_track_id |-> req[r].song.spotify_track_id,
                                   device_id |-> req[r].device_id,
                                   vote |-> req[r].vote]}
          /\ req' = [req EXCEPT
                ![r].upvotes = req[r].song.upvotes + (IF req[r].vote = "up" THEN 1 ELSE 0),
                ![r].downvotes = req[r].song.downvotes + (IF req[r].vote = "up" THEN 0 ELSE 1),
                ![r].pc = "update"]
  /\ UNCHANGED <<service, lastTrackId, current_song, song_history, poll, nEvents, runtime>>

\* lines 183-192 and, when the threshold is not reached, 224-230: write the
\* counters to the party's row, then start the skip or answer
VoteUpdate(r) ==
  /\ req[r].pc = "update"
  /\ current_song' = IF current_song = NoSong THEN NoSong
                     ELSE [current_song EXCEPT !.upvotes = req[r].upvotes,
                                               !.downvotes = req[r].downvotes]
  /\ IF req[r].downvotes >= DOWNVOTE_THRESHOLD
     THEN /\ res' = res
          /\ req' = [req EXCEPT ![r].pc = "skip"]
     ELSE /\ res' = Response(200, req[r].upvotes, req[r].downvotes, FALSE)
          /\ req' = [req EXCEPT ![r] = IdleReq]
  /\ UNCHANGED <<service, lastTrackId, votes, song_history, poll, nEvents, runtime>>

\* lines 194-197 and 231-234: the skip command; when it succeeds the service
\* moves to another track, when it throws the catch answers 500
VoteSkip(r, ok) ==
  /\ req[r].pc = "skip"
  /\ skipCommands' = skipCommands + 1
  /\ IF ok
     THEN /\ \E t \in Tracks \ {playing} : playing' = t
          /\ ended' = [ended EXCEPT ![playing] = @ + 1]
          /\ res' = res
          /\ req' = [req EXCEPT ![r].pc = "history"]
     ELSE /\ UNCHANGED <<playing, ended>>
          /\ res' = ErrorRes(500)
          /\ req' = [req EXCEPT ![r] = IdleReq]
  /\ UNCHANGED <<lastTrackId, store, poll, nEvents, runtime>>

\* lines 199-208: archive the track with skipped: true
VoteHistory(r) ==
  /\ req[r].pc = "history"
  /\ song_history' = Append(song_history,
       HistoryEntry(req[r].song.spotify_track_id, req[r].downvotes, TRUE))
  /\ req' = [req EXCEPT ![r].pc = "reset"]
  /\ UNCHANGED <<service, lastTrackId, current_song, votes, poll, res, nEvents, runtime>>

\* VoteReset written as an upsert of the row the handler read, counters zeroed
VoteReset_WholeRow(r) ==
  /\ req[r].pc = "reset"
  /\ current_song' = [req[r].song EXCEPT !.upvotes = 0, !.downvotes = 0]
  /\ req' = [req EXCEPT ![r].pc = "clear"]
  /\ UNCHANGED <<service, lastTrackId, votes, song_history, poll, res, nEvents, runtime>>

\* lines 210-214: zero the counters of the party's row
VoteReset(r) ==
  /\ req[r].pc = "reset"
  /\ current_song' = IF current_song = NoSong THEN NoSong
                     ELSE [current_song EXCEPT !.upvotes = 0, !.downvotes = 0]
  /\ req' = [req EXCEPT ![r].pc = "clear"]
  /\ UNCHANGED <<service, lastTrackId, votes, song_history, poll, res, nEvents, runtime>>

\* VoteClear without the delete of the track's votes
VoteClear_KeepRows(r) ==
  /\ req[r].pc = "clear"
  /\ res' = Response(200, req[r].upvotes, req[r].downvotes, TRUE)
  /\ req' = [req EXCEPT ![r] = IdleReq]
  /\ UNCHANGED <<service, lastTrackId, store, poll, nEvents, runtime>>

\* lines 216-230: delete the track's votes and answer
VoteClear(r) ==
  /\ req[r].pc = "clear"
  /\ votes' = votes \ VotesFor(req[r].song.spotify_track_id)
  /\ res' = Response(200, req[r].upvotes, req[r].downvotes, TRUE)
  /\ req' = [req EXCEPT ![r] = IdleReq]
  /\ UNCHANGED <<service, lastTrackId, current_song, song_history, poll, nEvents, runtime>>

\* -------------------------------------------------------- specification
Next ==
  \/ TrackEnds
  \/ \E obs \in {"ok", "nothing", "fail"} : PollFetch(obs)
  \/ PollSelectPrevious
  \/ PollArchive
  \/ PollClearVotes
  \/ PollUpsert
  \/ \E r \in Reqs, d \in DeviceInputs, v \in VoteInputs : VoteRequest(r, d, v)
  \/ \E r \in Reqs : VoteValidate(r)
  \/ \E r \in Reqs : VoteSelectSong(r)
  \/ \E r \in Reqs : VoteInsert(r)
  \/ \E r \in Reqs : VoteUpdate(r)
  \/ \E r \in Reqs, ok \in BOOLEAN : VoteSkip(r, ok)
  \/ \E r \in Reqs : VoteHistory(r)
  \/ \E r \in Reqs : VoteReset(r)
  \/ \E r \in Reqs : VoteClear(r)

Spec == Init /\ [][Next]_vars

\* ------------------------------------------------------- token refresh
\* refreshSpotifyToken (lines 43-65) awaits the token request without a
\* try/catch, so a failed request rejects the promise it returns.  Nothing
\* handles that rejection, neither start() (lines 259-266, called at 266
\* without a catch) nor the timer (line 68): the runtime either ends the
\* process (the default since Node 15) or only warns (older runtimes).
RefreshOutcomes == {"ok", "rejected-exit", "rejected-warn"}

\* the process is gone with what it held in memory; store and service stay
Exit ==
  /\ phase' = "exited"
  /\ lastTrackId' = None
  /\ poll' = IdlePoll
  /\ req' = [r \in Reqs |-> IdleReq]
  /\ UNCHANGED <<service, store, res, nEvents, access_token>>

\* lines 259-266: start() awaits the first refresh, then calls listen; when
\* the refresh rejects, listen is never called
StartRefresh(out) ==
  /\ phase = "starting"
  /\ CASE out = "ok" ->
             /\ access_token' = "refreshed"
             /\ phase' = "listening"
             /\ UNCHANGED <<service, lastTrackId, store, poll, req, res, nEvents>>
        [] out = "rejected-warn" ->
             /\ phase' = "stalled"
             /\ UNCHANGED <<service, lastTrackId, store, poll, req, res, nEvents,
                            access_token>>
        [] OTHER -> Exit

\* line 68: the timer runs refreshSpotifyToken every 50 minutes
TimerRefresh(out) ==
  /\ phase \in {"listening", "stalled"}
  /\ CASE out = "ok" ->
             /\ access_token' = "refreshed"
             /\ UNCHANGED <<service, lastTrackId, store, poll, req, res, nEvents,
                            phase>>
        [] out = "rejected-warn" -> UNCHANGED vars
        [] OTHER -> Exit

InitR ==
  /\ playing = "A"
  /\ ended = [t \in Tracks |-> 0]
  /\ skipCommands = 0
  /\ lastTrackId = None
  /\ current_song = NoSong
  /\ votes = {}
  /\ song_history = <<>>
  /\ poll = IdlePoll
  /\ req = [r \in Reqs |-> IdleReq]
  /\ res = NoRes
  /\ nEvents = 0
  /\ phase = "starting"
  /\ access_token = "env"

NextR ==
  \/ Next
  \/ \E out \in RefreshOutcomes : StartRefresh(out)
  \/ \E out \in RefreshOutcomes : TimerRefresh(out)

SpecR == InitR /\ [][NextR]_vars

\* the same service with store calls of the poll cycle that may fail
NextF ==
  \/ Next
  \/ PollStoreThrows
  \/ PollStoreError

SpecF == Init /\ [][NextF]_vars

\* ------------------------------------------------------------ vocabulary
NoVoteInFlight == \A r \in Reqs : req[r].pc = "idle"

DownRows(t) == {v \in VotesFor(t) : v.vote = "down"}

EntriesFor(t) == {i \in DOMAIN song_history : song_history[i].spotify_track_id = t}
SkippedEntries == {i \in DOMAIN song_history : song_history[i].skipped}

\* the step is taken by the poll callback / by handler r
PollStep == poll' # poll
VoteStep(r) == req'[r] # req[r]

\* ----------------------------------------------------------------- C1
\* C1: in every reachable state the votes table holds at most one row per
\* (track, device), whatever directions the device tried to cast.
C1_OneVotePerDeviceTrack ==
  \A v1 \in votes, v2 \in votes :
    (v1.spotify_track_id = v2.spotify_track_id /\ v1.device_id = v2.device_id)
      => v1 = v2

\* a device that holds a row was refused a second vote on the same track
C1_Witness ==
  /\ res.status = 409
  /\ current_song # NoSong
  /\ VotesFor(current_song.spotify_track_id) # {}

\* ----------------------------------------------------------------- C2
\* C2: threshold-many downvotes from distinct devices on a track always lead
\* to the skip: once no request is in flight, a track never has threshold-many
\* down rows left in the ledger (the skip would have cleared them), every skip
\* command sent has its HistoryEntry with skipped=true, and no count at or
\* above the threshold is left in the row.
C2_ThresholdAlwaysSkips ==
  NoVoteInFlight =>
    /\ \A t \in Tracks : Cardinality(DownRows(t)) < DOWNVOTE_THRESHOLD
    /\ Cardinality(SkippedEntries) = skipCommands
    /\ current_song.downvotes < DOWNVOTE_THRESHOLD

\* ----------------------------------------------------------------- C3
\* C3: a poll cycle that observes the last-seen track identifier is a no-op:
\* none of its steps changes the current_song row, the ledger or the history.
C3_SameTrackPollIsNoOp ==
  [][(PollStep /\ poll.pc # "idle" /\ poll.track = lastTrackId)
       => UNCHANGED <<current_song, votes, song_history>>]_vars

\* ----------------------------------------------------------------- C4
\* C4: every track ending produces at most one HistoryEntry: the history never
\* holds more entries for a track than the number of times that track ended.
C4_OneEntryPerEnding ==
  \A t \in Tracks : Cardinality(EntriesFor(t)) <= ended[t]

\* ----------------------------------------------------------------- C5
\* C5: a natural transition archives the prior track with skipped=false and
\* its final tallies, the number of downvotes successfully cast on it, and
\* leaves a row for the new track with counters (0,0).  Checked on the poll
\* cycle's archive step taken while no request is in flight and the row is
\* still as the cycle read it, and on its upsert step.
C5_TransitionArchivesFinalTallies ==
  [][/\ (PollStep /\ poll.pc = "archive" /\ NoVoteInFlight
           /\ current_song = poll.previousSong)
          => song_history' = Append(song_history,
               HistoryEntry(lastTrackId,
                            Cardinality(DownRows(lastTrackId)), FALSE))
     /\ (PollStep /\ poll.pc = "upsert")
          => current_song' = FreshRow(poll.track)]_vars

\* ----------------------------------------------------------------- C6
\* C6: a request from a device that already has a vote row for the track it
\* read is answered 409 whatever its direction, and that step changes neither
\* the ledger, nor the current_song row, nor the history, nor the playback
\* service (no skip command).
C6_DuplicateVoteRejected ==
  [][\A r \in Reqs :
       (VoteStep(r) /\ req[r].pc = "insert"
          /\ VoteKeyTaken(req[r].song.spotify_track_id, req[r].device_id))
         => /\ res'.status = 409
            /\ req'[r].pc = "idle"
            /\ UNCHANGED <<votes, current_song, song_history, service>>]_vars

\* a device cast "up", then tried "down" on the same track: conflict, and the
\* aggregate is still (1, 0)
C6_Witness ==
  /\ res.status = 409
  /\ NoVoteInFlight
  /\ current_song.upvotes = 1 /\ current_song.downvotes = 0
  /\ votes = {[spotify_track_id |-> current_song.spotify_track_id,
               device_id |-> "d1", vote |-> "up"]}

\* ----------------------------------------------------------------- C7
\* C7: the counter write of a successful vote increments the matching
\* current_song counter by exactly one and leaves the other one unchanged.
C7_VoteIncrementsByOne ==
  [][\A r \in Reqs :
       (VoteStep(r) /\ req[r].pc = "update"
          /\ current_song.spotify_track_id = req[r].song.spotify_track_id)
         => /\ current_song'.upvotes =
                 current_song.upvotes + (IF req[r].vote = "up" THEN 1 ELSE 0)
            /\ current_song'.downvotes =
                 current_song.downvotes + (IF req[r].vote = "down" THEN 1 ELSE 0)]_vars

\* ----------------------------------------------------------------- C8
\* C8: when the skip command fails the remaining skip steps still run: once
\* the requests are answered, every skip command sent (failed ones included)
\* has its HistoryEntry with skipped=true, and no count at or above the
\* threshold is left in the row with the track's ledger uncleared.
C8_FailedSkipStillResets ==
  (NoVoteInFlight /\ res.status = 500) =>
    /\ Cardinality(SkippedEntries) = skipCommands
    /\ ~ (/\ current_song.downvotes >= DOWNVOTE_THRESHOLD
          /\ VotesFor(current_song.spotify_track_id) # {})

\* ----------------------------------------------------------------- C9
\* C9: the k-th successful "down" vote on a track, cast from distinct devices
\* one after another, is answered downvotes = k, remaining_to_skip = T - k
\* (never negative) and skipped = (k >= T), and a skipped=true answer comes
\* with the track's ledger emptied.  k is the number of down rows of the track
\* once the vote is inserted, for a vote inserted while no other request is
\* in flight and the row it read is still the stored one; the answer is the
\* one given to a request whose vote row was inserted.
C9_KthDownVoteResponse ==
  [][\A r \in Reqs :
       LET t == req[r].song.spotify_track_id
           d == req[r].downvotes
       IN /\ (/\ VoteStep(r) /\ req[r].pc = "insert"
              /\ ~ VoteKeyTaken(t, req[r].device_id)
              /\ req[r].vote = "down"
              /\ req[r].song = current_song
              /\ \A q \in Reqs \ {r} : req[q].pc = "idle")
               => req'[r].downvotes = Cardinality(DownRows(t)')
          /\ (/\ VoteStep(r) /\ req[r].pc \in {"update", "skip", "clear"}
              /\ req'[r].pc = "idle")
               => /\ res'.status = 200
                  /\ res'.downvotes = d
                  /\ res'.remaining_to_skip >= 0
                  /\ res'.remaining_to_skip =
                       (IF d <= DOWNVOTE_THRESHOLD THEN DOWNVOTE_THRESHOLD - d ELSE 0)
                  /\ res'.skipped = (d >= DOWNVOTE_THRESHOLD)
                  /\ res'.skipped => VotesFor(t)' = {}]_vars

\* ---------------------------------------------------------------- C10
\* C10: a request without device identifier or with a direction other than
\* "up"/"down" is answered 400, and a request that finds no current_song row
\* is answered 404; neither step changes the ledger, the row, the history or
\* the playback service.  The 400 does not depend on the store.
C10_InvalidAndNoTrackRejected ==
  [][\A r \in Reqs :
       /\ (/\ VoteStep(r) /\ req[r].pc = "validate"
           /\ (req[r].device_id = None \/ req[r].vote \notin {"up", "down"}))
            => /\ res'.status = 400
               /\ req'[r].pc = "idle"
               /\ UNCHANGED <<votes, current_song, song_history, service>>
       /\ (VoteStep(r) /\ req[r].pc = "select" /\ current_song = NoSong)
            => /\ res'.status = 404
               /\ req'[r].pc = "idle"
               /\ UNCHANGED <<votes, current_song, song_history, service>>]_vars

\* an invalid request was answered 400 while no track is active, and a valid
\* one is about to read the empty store
C10_Witness ==
  /\ res.status = 400
  /\ current_song = NoSong
  /\ \E r \in Reqs : req[r].pc = "select"

\* ---------------------------------------------------------------- C11
\* C11: vote rows live only as long as their track: once every request is
\* answered and no poll cycle is under way, every row of the votes table
\* refers to the track identifier of the current_song row, also when a request
\* that read the old track raced with the poll cycle that ended it.
C11_VotesOnlyForCurrentTrack ==
  (NoVoteInFlight /\ poll.pc = "idle")
    => \A v \in votes : v.spotify_track_id = current_song.spotify_track_id

\* ---------------------------------------------------------------- C12
\* the track identity of a row: identifier, name and artist
Identity(row) == <<row.spotify_track_id, row.track_name, row.artist>>

\* C12: the party has one current_song row (current_song is that row); when
\* a poll cycle that observed a track completes, the row's identifier, name
\* and artist are those of the snapshot it observed and the identifier equals
\* lastTrackId, and so it stays while no cycle is under way; no step of a vote
\* request, answered 200, 400, 404, 409 or 500, skipping or not, changes the
\* row's identity.
C12_RowReflectsLastSnapshot ==
  [][/\ (PollStep /\ poll.pc = "upsert")
          => /\ Identity(current_song') =
                  <<poll.track, TrackName(poll.track), Artist(poll.track)>>
             /\ lastTrackId' = poll.track
     /\ (poll'.pc = "idle" /\ lastTrackId' # None)
          => Identity(current_song') =
               <<lastTrackId', TrackName(lastTrackId'), Artist(lastTrackId')>>
     /\ \A r \in Reqs :
          VoteStep(r) => Identity(current_song') = Identity(current_song)]_vars

\* a skipping request completed after the poll cycle had replaced the row it
\* read: the row is the one of the track observed last
C12_Witness ==
  /\ res.status = 200 /\ res.skipped
  /\ poll.pc = "idle"
  /\ lastTrackId = "B"
  /\ song_history[Len(song_history)].spotify_track_id = "A"
  /\ song_history[Len(song_history)].skipped
  /\ Identity(current_song) = <<"B", TrackName("B"), Artist("B")>>

C14_PollFailureContained ==
  [][/\ (PollStep /\ poll'.failed /\ ~ poll.failed)
          => /\ poll'.pc = "idle"
             /\ UNCHANGED <<store, req, res, service>>
     /\ (PollStep /\ poll.pc # "idle" /\ poll'.pc = "idle" /\ ~ poll'.failed)
          => /\ Identity(current_song') =
                  <<poll.track, TrackName(poll.track), Artist(poll.track)>>
             /\ lastTrackId' = poll.track
     /\ (PollStep /\ poll.pc = "idle" /\ poll'.pc # "idle")
          => ((poll'.pc = "select") <=> (lastTrackId \notin {None, poll'.track}))
    ]_vars

\* ---------------------------------------------------------------- C15
\* C15: a failed token refresh, at startup or from the timer, never
\* terminates the process and never leaves it without vote handling: the
\* process never exits, startup always ends with the server listening, and
\* the access token changes only to a refreshed one (a failed refresh leaves
\* the previous one in place).
C15_RefreshFailureContained ==
  [][/\ phase' # "exited"
     /\ (phase = "starting" /\ phase' # "starting") => phase' = "listening"
     /\ (phase = "listening") => phase' = "listening"
     /\ (access_token' # access_token) => access_token' = "refreshed"]_vars

\* ---------------------------------------------------------------- C16
\* C16: a request with direction "up" never enters the skip path: none of its
\* steps sends a skip command, writes a HistoryEntry, or removes a vote row,
\* and it never reaches the skip, history, reset or clear position, whatever
\* downvote count it read from the row.
C16_UpVoteNeverSkips ==
  [][\A r \in Reqs :
       (VoteStep(r) /\ req[r].vote = "up")
         => /\ req'[r].pc \notin {"skip", "history", "reset", "clear"}
            /\ skipCommands' = skipCommands
            /\ song_history' = song_history
            /\ votes \subseteq votes']_vars

\* ---------------------------------------------------------------- C17
\* C17: the steps of a skipping request come in the order skip command,
\* HistoryEntry (skipped=true, the request's downvote count), ledger clear,
\* counter reset: the entry is written by the step that follows the skip
\* command, with every vote row and the counters still in place, and the
\* counters are reset only once no vote row of the track is left.
C17_SkipStepsInOrder ==
  [][\A r \in Reqs :
       LET t == req[r].song.spotify_track_id
       IN /\ (VoteStep(r) /\ song_history' # song_history)
               => /\ req[r].pc = "history"
                  /\ song_history' = Append(song_history,
                       HistoryEntry(t, req[r].downvotes, TRUE))
                  /\ UNCHANGED <<votes, current_song>>
          /\ (VoteStep(r) /\ req[r].pc \in {"history", "reset", "clear"}
                /\ current_song' # current_song)
               => VotesFor(t) = {}]_vars

\* ---------------------------------------------------------------- C18
\* C18: a poll cycle that finds nothing playing is no signal: it ends at once
\* and leaves lastTrackId, the current_song row, the ledger and the history
\* unchanged.  So the next cycle compares with the track seen before the
\* gap: a cycle writes a HistoryEntry only when the track it observed differs
\* from lastTrackId, one entry, for the track lastTrackId names (A, nothing, A
\* writes none; A, nothing, B writes one, for A).
C18_NothingPlayingIsNoSignal ==
  [][/\ (PollStep /\ poll.pc = "idle" /\ poll'.pc = "idle")
          => UNCHANGED <<lastTrackId, store>>
     /\ (PollStep /\ song_history' # song_history)
          => /\ lastTrackId \notin {None, poll.track}
             /\ song_history' = Append(song_history,
                  HistoryEntry(lastTrackId, poll.previousSong.downvotes, FALSE))
             /\ poll'.pc # "archive"]_vars

\* A was observed, a vote on it is counted, and the cycle that ran last found
\* nothing playing: the row has its vote and A is still the last-seen track
C18_Witness ==
  /\ poll.pc = "idle" /\ poll.track = None /\ ~ poll.failed
  /\ lastTrackId = "A"
  /\ current_song = [FreshRow("A") EXCEPT !.upvotes = 1]
  /\ Cardinality(votes) = 1
  /\ song_history = <<>>

\* ---------------------------------------------------------------- C19
\* C19: whenever no vote request is in flight, the downvote count stored in
\* the current_song row is strictly below the threshold.
C19_StoredCountBelowThreshold ==
  NoVoteInFlight => current_song.downvotes < DOWNVOTE_THRESHOLD

\* ---------------------------------------------------------------- C20
\* C20: a vote is counted toward the track it was recorded for: when a request
\* that inserted a vote row for track t writes its counters, and when it sends
\* the skip command, the current_song row still has track identifier t.
C20_CountedTowardRecordedTrack ==
  [][\A r \in Reqs :
       (VoteStep(r) /\ req[r].pc \in {"update", "skip"})
         => current_song.spotify_track_id = req[r].song.spotify_track_id]_vars

====
